---- MODULE Spec2Model ----
(***************************************************************************)
(* StringArtVisualizer (src/src/StringVisualizer.tsx): the playback state  *)
(* of the component (currentLineIndex, isAnimating, animationSpeed, the    *)
(* animationRef handle and the animation frames the browser holds for it), *)
(* its button handlers, the frame callback `animate`, the effect that      *)
(* follows a change of isAnimating, and the render-time computation of the *)
(* visible segments.  One action is one browser event handled to the end:  *)
(* the handler, the re-render, and the effects the re-render triggers.     *)
(***************************************************************************)
EXTENDS Integers, Sequences, FiniteSets, TLC

\* ---------------------------------------------------------------- bounds
MaxLen == 3      \* longest path drawn for the initial payload
MaxStep == 3     \* slider values 1..MaxStep are tried besides the default and the maximum
MaxHandle == 2   \* animation-frame handles the browser issues before Start is cut off
MaxGestures == 2 \* drags and wheel events away from the untouched origin
MaxRequests == 2 \* crop confirmations sent to the server

\* ------------------------------------------------------ program constants
InitialSpeed == 10        \* useState(10)
SliderMin == 1            \* <input type="range" min="1">
SliderMax == 50           \* <input type="range" max="50">
LogicalBoardSize == 300   \* nail.x / 300
DefaultCanvasSize == 600  \* canvasSize = 600
NoHandle == 0             \* useRef<number>(): undefined, falsy like no handle
\* Scales are kept in units of 1/10000; stage coordinates in whole pixels.
ScaleOne == 10000         \* useState(1)
MinScale == 1000          \* Math.max(0.1, ...)
MaxScale == 30000         \* Math.min(newScale, 3)
ScaleByNum == 11          \* scaleBy = 1.1
ScaleByDen == 10

Min(a, b) == IF a <= b THEN a ELSE b
Max(a, b) == IF a >= b THEN a ELSE b

\* ---------------------------------------------------------------- inputs
\* Nail k of the payload, on the 300 x 300 logical board.  Coordinates are
\* multiples of 75, so (x / 300) * 600 is exact in floating point.
NailAt(k) == [x |-> 75 * (k % 5), y |-> 75 * ((k \div 5) % 5)]
NailsOfCount(n) == [k \in 1..n |-> NailAt(k - 1)]

NailCounts == {0, 2, 3}
PathEntries == {0, 1, 2}      \* index 2 is out of range when there are 2 nails
PathsUpTo(n) == UNION {[1..k -> PathEntries] : k \in 0..n}

\* The payload of the specification's robustness example.
ExampleNails == NailsOfCount(5)
ExamplePath == <<0, 1, 7, 2>>

SpeedInputs == (SliderMin..Min(MaxStep, SliderMax)) \cup {InitialSpeed, SliderMax}

VARIABLES
  nails,             \* props.nails
  lines,             \* props.lines
  currentLineIndex,  \* useState(0)
  isAnimating,       \* useState(false)
  animationSpeed,    \* useState(10)
  animationRef,      \* animationRef.current
  frames,            \* callbacks the browser holds from requestAnimationFrame
  nextHandle,        \* the handle the next requestAnimationFrame returns
  lastEvent,         \* the event handled last, with the state it found
  scale,             \* useState(1)
  position,          \* useState({ x: 0, y: 0 })
  stage,             \* the Konva stage node behind stageRef: scaleX, x, y
  gestures,          \* viewport gestures counted against MaxGestures
  mounted,           \* the visualizer has not been torn down
  selectedImage,     \* App: selectedImage is not null
  croppedAreaPixels, \* App: croppedAreaPixels is not null
  processedImage,    \* App: the preview held (0: null, else the response it came with)
  showCropModal,     \* App: showCropModal
  requests           \* App: transformation requests sent, and those still in flight

viewVars == <<scale, position, stage, gestures>>
appVars == <<selectedImage, croppedAreaPixels, processedImage, showCropModal, requests>>

vars == <<nails, lines, currentLineIndex, isAnimating, animationSpeed,
          animationRef, frames, nextHandle, lastEvent, viewVars, mounted, appVars>>

\* JavaScript arrays are 0-based.
At(arr, i) == arr[i + 1]

\* ------------------------------------------------------------- rendering
STAGE_WIDTH == DefaultCanvasSize
STAGE_HEIGHT == DefaultCanvasSize

scaledNails == [k \in 1..Len(nails) |->
                  [x |-> (nails[k].x * STAGE_WIDTH) \div LogicalBoardSize,
                   y |-> (nails[k].y * STAGE_HEIGHT) \div LogicalBoardSize]]

\* scaledNails[i] is an object (truthy) exactly when i is a position of the array.
HasNail(i) == i \in 0..(Len(nails) - 1)

LineCoords(nail1Index, nail2Index) ==
  <<At(scaledNails, nail1Index).x, At(scaledNails, nail1Index).y,
    At(scaledNails, nail2Index).x, At(scaledNails, nail2Index).y>>

\* The loop leaving at the first pair with a missing nail instead of skipping it.
RECURSIVE VisibleLoop_BreakOnBad(_, _, _)
VisibleLoop_BreakOnBad(i, bound, lineCoords) ==
  IF i < bound /\ HasNail(At(lines, i - 1)) /\ HasNail(At(lines, i))
    THEN VisibleLoop_BreakOnBad(i + 1, bound,
           Append(lineCoords, LineCoords(At(lines, i - 1), At(lines, i))))
    ELSE lineCoords

RECURSIVE VisibleLoop(_, _, _)
VisibleLoop(i, bound, lineCoords) ==
  IF i < bound
    THEN LET nail1Index == At(lines, i - 1)
             nail2Index == At(lines, i)
         IN VisibleLoop(i + 1, bound,
              IF HasNail(nail1Index) /\ HasNail(nail2Index)
                THEN Append(lineCoords, LineCoords(nail1Index, nail2Index))
                ELSE lineCoords)
    ELSE lineCoords

\* The loop starting at i = 2: the first pair is never drawn.
getVisibleLines_SkipsFirst ==
  IF currentLineIndex < 2
    THEN <<>>
    ELSE VisibleLoop(2, Min(currentLineIndex, Len(lines)), <<>>)

getVisibleLines ==
  IF currentLineIndex < 2
    THEN <<>>
    ELSE VisibleLoop(1, Min(currentLineIndex, Len(lines)), <<>>)

Placeholder == Len(nails) = 0 \/ Len(lines) = 0

Render ==
  IF Placeholder
    THEN [view |-> "placeholder", visibleLines |-> <<>>]
    ELSE [view |-> "stage", visibleLines |-> getVisibleLines]

\* -------------------------------------------------------------- playback
Component == [currentLineIndex |-> currentLineIndex,
              isAnimating |-> isAnimating,
              animationRef |-> animationRef,
              frames |-> frames,
              nextHandle |-> nextHandle]

\* animationRef.current = requestAnimationFrame(animate): the browser queues the
\* callback with what its closure captured and returns a fresh handle.
requestAnimationFrame(c, closure) ==
  [c EXCEPT !.frames = @ \cup {[handle |-> c.nextHandle,
                                step |-> closure.step,
                                len |-> closure.len,
                                isAnimating |-> closure.isAnimating]},
            !.animationRef = c.nextHandle,
            !.nextHandle = @ + 1]

cancelAnimationFrame(c, handle) ==
  [c EXCEPT !.frames = {f \in @ : f.handle # handle}]

\* startAnimation without its first line, the return on an empty path.
startAnimation_NoGuard(c, ls, speed) ==
  requestAnimationFrame(
    [c EXCEPT !.currentLineIndex = 0, !.isAnimating = TRUE],
    [step |-> speed, len |-> Len(ls), isAnimating |-> c.isAnimating])

startAnimation(c, ls, speed) ==
  IF Len(ls) = 0
    THEN c
    ELSE requestAnimationFrame(
           [c EXCEPT !.currentLineIndex = 0, !.isAnimating = TRUE],
           [step |-> speed, len |-> Len(ls), isAnimating |-> c.isAnimating])

\* animate returning next where it should return lines.length.
animate_NoClamp(c, f) ==
  LET next == c.currentLineIndex + f.step
      c1 == IF next >= f.len
              THEN [c EXCEPT !.currentLineIndex = next, !.isAnimating = FALSE]
              ELSE [c EXCEPT !.currentLineIndex = next]
  IN IF f.isAnimating
       THEN requestAnimationFrame(c1, f)
       ELSE c1

\* animate comparing with > where it should compare with >=.
animate_StrictCompare(c, f) ==
  LET next == c.currentLineIndex + f.step
      c1 == IF next > f.len
              THEN [c EXCEPT !.currentLineIndex = f.len, !.isAnimating = FALSE]
              ELSE [c EXCEPT !.currentLineIndex = next]
  IN IF f.isAnimating
       THEN requestAnimationFrame(c1, f)
       ELSE c1

\* animate reading the slider's current value instead of the captured one.
animate_LiveSpeed(c, f) ==
  LET next == c.currentLineIndex + animationSpeed
      c1 == IF next >= f.len
              THEN [c EXCEPT !.currentLineIndex = f.len, !.isAnimating = FALSE]
              ELSE [c EXCEPT !.currentLineIndex = next]
  IN IF f.isAnimating
       THEN requestAnimationFrame(c1, f)
       ELSE c1

animate(c, f) ==
  LET next == c.currentLineIndex + f.step
      c1 == IF next >= f.len
              THEN [c EXCEPT !.currentLineIndex = f.len, !.isAnimating = FALSE]
              ELSE [c EXCEPT !.currentLineIndex = next]
  IN IF f.isAnimating
       THEN requestAnimationFrame(c1, f)
       ELSE c1

\* stopAnimation cancelling the frame but leaving isAnimating as it was.
stopAnimation_KeepsFlag(c) ==
  IF c.animationRef # NoHandle
    THEN cancelAnimationFrame(c, c.animationRef)
    ELSE c

stopAnimation(c) ==
  LET c1 == [c EXCEPT !.isAnimating = FALSE]
  IN IF c1.animationRef # NoHandle
       THEN cancelAnimationFrame(c1, c1.animationRef)
       ELSE c1

\* resetAnimation without its call of stopAnimation.
resetAnimation_NoStop(c) == [c EXCEPT !.currentLineIndex = 0]

resetAnimation(c) == [stopAnimation(c) EXCEPT !.currentLineIndex = 0]

\* showAllLines without its call of stopAnimation.
showAllLines_NoStop(c, ls) == [c EXCEPT !.currentLineIndex = Len(ls)]

showAllLines(c, ls) == [stopAnimation(c) EXCEPT !.currentLineIndex = Len(ls)]

\* parseInt of the slider's value, a decimal string of an integer of its range.
handleSpeedChange(value) == value

\* useEffect(..., [isAnimating]): runs after a render in which isAnimating changed.
StopEffect(c) ==
  IF ~c.isAnimating /\ c.animationRef # NoHandle
    THEN cancelAnimationFrame(c, c.animationRef)
    ELSE c

AfterRender(old, new) ==
  IF new.isAnimating # old.isAnimating THEN StopEffect(new) ELSE new

CommitAt(new, op, step, pointer) ==
  LET c == AfterRender(Component, new)
  IN /\ currentLineIndex' = c.currentLineIndex
     /\ isAnimating' = c.isAnimating
     /\ animationRef' = c.animationRef
     /\ frames' = c.frames
     /\ nextHandle' = c.nextHandle
     /\ lastEvent' = [op |-> op,
                      index |-> currentLineIndex,
                      animating |-> isAnimating,
                      step |-> step,
                      pointer |-> pointer]

Commit(new, op, step) == CommitAt(new, op, step, [x |-> 0, y |-> 0])

\* ------------------------------------------------------------------- App
\* src/src/App.tsx: the state App holds around the visualizer.
NoImage == 0              \* useState<string | null>(null)

AppState == [selectedImage |-> selectedImage,
             croppedAreaPixels |-> croppedAreaPixels,
             processedImage |-> processedImage,
             showCropModal |-> showCropModal,
             artData |-> [nails |-> nails, lines |-> lines]]

\* What sendImageToServer resolves to: response.data, or undefined when the
\* request failed and the error was caught.
Undefined == [undefined |-> TRUE]
Results ==
  {[base64Image |-> 1, stringArt |-> [nails |-> NailsOfCount(3), lines |-> <<0, 1, 2>>]],
   [base64Image |-> 2, stringArt |-> [nails |-> NailsOfCount(2), lines |-> <<1, 0>>]],
   [base64Image |-> 3, stringArt |-> [nails |-> NailsOfCount(2), lines |-> <<>>]]}

\* reader.onloadend of handleFileSelect
handleFileSelect(a) == [a EXCEPT !.selectedImage = TRUE, !.showCropModal = TRUE]

onCropComplete(a) == [a EXCEPT !.croppedAreaPixels = TRUE]

handleCropCancel(a) == [a EXCEPT !.showCropModal = FALSE, !.selectedImage = FALSE]

\* handleCropConfirm closing the dialog whether or not a result came.
handleCropConfirm_AlwaysCloses(a, result) ==
  IF result = Undefined
    THEN [a EXCEPT !.showCropModal = FALSE, !.selectedImage = FALSE]
    ELSE [a EXCEPT !.processedImage = result.base64Image,
                   !.artData = result.stringArt,
                   !.showCropModal = FALSE,
                   !.selectedImage = FALSE]

\* handleCropConfirm from the point where sendImageToServer has resolved:
\* result.base64Image throws for an undefined result, before any setter, and
\* the catch block only logs.
handleCropConfirm(a, result) ==
  IF result = Undefined
    THEN a
    ELSE [a EXCEPT !.processedImage = result.base64Image,
                   !.artData = result.stringArt,
                   !.showCropModal = FALSE,
                   !.selectedImage = FALSE]

CommitApp(a) ==
  /\ selectedImage' = a.selectedImage
  /\ croppedAreaPixels' = a.croppedAreaPixels
  /\ processedImage' = a.processedImage
  /\ showCropModal' = a.showCropModal
  /\ nails' = a.artData.nails
  /\ lines' = a.artData.lines

\* useEffect(() => () => {...}, []): the cleanup run at unmount, left out.
unmountCleanup_None(c) == c

\* useEffect(() => () => {...}, []): the cleanup run at unmount.
unmountCleanup(c) ==
  IF c.animationRef # NoHandle
    THEN cancelAnimationFrame(c, c.animationRef)
    ELSE c

\* -------------------------------------------------------------- viewport
\* Division rounded to the nearest integer (b > 0).
RoundDiv(a, b) == (2 * a + b) \div (2 * b)

Origin == [x |-> 0, y |-> 0]
Pointers == {Origin, [x |-> 100, y |-> 0], [x |-> 300, y |-> 300]}
WheelDeltas == {-100, 100}
DragDeltas == {[x |-> -10, y |-> 0], [x |-> 10, y |-> 20]}

View == [scale |-> scale, position |-> position, stage |-> stage]

\* <Stage scaleX={scale} scaleY={scale} x={position.x} y={position.y}>
StageProps(v) == [scaleX |-> v.scale, x |-> v.position.x, y |-> v.position.y]

\* react-konva after a render: a prop is set on the node only when its value
\* differs from the value the previous render passed.
ApplyNodeProps(node, oldProps, props) ==
  [scaleX |-> IF props.scaleX # oldProps.scaleX THEN props.scaleX ELSE node.scaleX,
   x |-> IF props.x # oldProps.x THEN props.x ELSE node.x,
   y |-> IF props.y # oldProps.y THEN props.y ELSE node.y]

\* handleWheel keeping the lower clamp out: Math.min(newScale, 3) alone.
handleWheel_NoLowerClamp(v, pointer, deltaY) ==
  LET oldScale == v.stage.scaleX
      mousePointTo == [x |-> RoundDiv((pointer.x - v.stage.x) * ScaleOne, oldScale),
                       y |-> RoundDiv((pointer.y - v.stage.y) * ScaleOne, oldScale)]
      newScale == IF deltaY > 0
                    THEN RoundDiv(oldScale * ScaleByDen, ScaleByNum)
                    ELSE RoundDiv(oldScale * ScaleByNum, ScaleByDen)
      clampedScale == Min(newScale, MaxScale)
  IN [v EXCEPT !.scale = clampedScale,
               !.position = [x |-> pointer.x - RoundDiv(mousePointTo.x * clampedScale, ScaleOne),
                             y |-> pointer.y - RoundDiv(mousePointTo.y * clampedScale, ScaleOne)]]

handleWheel(v, pointer, deltaY) ==
  LET oldScale == v.stage.scaleX
      mousePointTo == [x |-> RoundDiv((pointer.x - v.stage.x) * ScaleOne, oldScale),
                       y |-> RoundDiv((pointer.y - v.stage.y) * ScaleOne, oldScale)]
      newScale == IF deltaY > 0
                    THEN RoundDiv(oldScale * ScaleByDen, ScaleByNum)
                    ELSE RoundDiv(oldScale * ScaleByNum, ScaleByDen)
      clampedScale == Max(MinScale, Min(newScale, MaxScale))
  IN [v EXCEPT !.scale = clampedScale,
               !.position = [x |-> pointer.x - RoundDiv(mousePointTo.x * clampedScale, ScaleOne),
                             y |-> pointer.y - RoundDiv(mousePointTo.y * clampedScale, ScaleOne)]]

\* The stage is draggable: Konva moves the node; no handler tells the component.
dragStage(v, delta) ==
  [v EXCEPT !.stage.x = @ + delta.x, !.stage.y = @ + delta.y]

\* The re-render that follows a handler: the node takes the props that changed.
CommitView(new) ==
  LET node == ApplyNodeProps(new.stage, StageProps(View), StageProps(new))
  IN /\ scale' = new.scale
     /\ position' = new.position
     /\ stage' = node

ViewInit ==
  /\ scale = ScaleOne
  /\ position = [x |-> 0, y |-> 0]
  /\ stage = [scaleX |-> ScaleOne, x |-> 0, y |-> 0]
  /\ gestures = 0

\* The visualizer as it stands once a first transformation result is held.
Init ==
  /\ \/ \E n \in NailCounts, p \in PathsUpTo(MaxLen) :
          nails = NailsOfCount(n) /\ lines = p
     \/ nails = ExampleNails /\ lines = ExamplePath
  /\ currentLineIndex = 0
  /\ isAnimating = FALSE
  /\ animationSpeed = InitialSpeed
  /\ animationRef = NoHandle
  /\ frames = {}
  /\ nextHandle = 1
  /\ lastEvent = [op |-> "mount", index |-> 0, animating |-> FALSE, step |-> 0,
                  pointer |-> Origin]
  /\ ViewInit
  /\ mounted = TRUE
  /\ selectedImage = FALSE
  /\ croppedAreaPixels = TRUE
  /\ processedImage = 1
  /\ showCropModal = FALSE
  /\ requests = [sent |-> 1, inFlight |-> 0]

\* The buttons, the slider and the stage exist only while the component is
\* mounted and the placeholder is not shown.
ControlsRendered == mounted /\ ~Placeholder

\* The Start button without disabled={isAnimating}.
Start_AlwaysEnabled ==
  /\ ControlsRendered
  /\ nextHandle <= MaxHandle
  /\ Commit(startAnimation(Component, lines, animationSpeed), "start", animationSpeed)
  /\ UNCHANGED <<nails, lines, animationSpeed, viewVars, mounted, appVars>>

\* "Start Animation", disabled={isAnimating}
Start ==
  /\ ControlsRendered
  /\ ~isAnimating
  /\ nextHandle <= MaxHandle
  /\ Commit(startAnimation(Component, lines, animationSpeed), "start", animationSpeed)
  /\ UNCHANGED <<nails, lines, animationSpeed, viewVars, mounted, appVars>>

\* The browser runs a queued frame callback; the frame leaves the queue first.
Tick ==
  /\ \E f \in frames :
       /\ f.isAnimating => nextHandle <= MaxHandle
       /\ Commit(animate([Component EXCEPT !.frames = @ \ {f}], f), "tick", f.step)
  /\ UNCHANGED <<nails, lines, animationSpeed, viewVars, mounted, appVars>>

\* The Reset button also restoring the initial viewport.
Reset_AlsoResetsView ==
  /\ ControlsRendered
  /\ Commit(resetAnimation(Component), "reset", 0)
  /\ CommitView([View EXCEPT !.scale = ScaleOne, !.position = [x |-> 0, y |-> 0]])
  /\ UNCHANGED <<nails, lines, animationSpeed, gestures, mounted, appVars>>

\* "Pause", disabled={!isAnimating}
Pause ==
  /\ ControlsRendered
  /\ isAnimating
  /\ Commit(stopAnimation(Component), "pause", 0)
  /\ UNCHANGED <<nails, lines, animationSpeed, viewVars, mounted, appVars>>

Reset ==
  /\ ControlsRendered
  /\ Commit(resetAnimation(Component), "reset", 0)
  /\ UNCHANGED <<nails, lines, animationSpeed, viewVars, mounted, appVars>>

ShowAll ==
  /\ ControlsRendered
  /\ Commit(showAllLines(Component, lines), "showAll", 0)
  /\ UNCHANGED <<nails, lines, animationSpeed, viewVars, mounted, appVars>>

SpeedChange ==
  /\ ControlsRendered
  /\ \E value \in SpeedInputs : animationSpeed' = handleSpeedChange(value)
  /\ Commit(Component, "speed", 0)
  /\ UNCHANGED <<nails, lines, viewVars, mounted, appVars>>

\* onWheel with the pointer away from an untouched origin, or after a pan.
Wheel ==
  /\ ControlsRendered
  /\ gestures < MaxGestures
  /\ \E pointer \in Pointers, deltaY \in WheelDeltas :
       /\ CommitView(handleWheel(View, pointer, deltaY))
       /\ CommitAt(Component, "wheel", 0, pointer)
  /\ gestures' = gestures + 1
  /\ UNCHANGED <<nails, lines, animationSpeed, mounted, appVars>>

\* onWheel with the pointer at the stage origin while the stage has not moved.
WheelAtOrigin ==
  /\ ControlsRendered
  /\ position = Origin /\ stage.x = 0 /\ stage.y = 0
  /\ \E deltaY \in WheelDeltas : CommitView(handleWheel(View, Origin, deltaY))
  /\ Commit(Component, "wheel", 0)
  /\ UNCHANGED <<nails, lines, animationSpeed, gestures, mounted, appVars>>

\* A drag of the stage (draggable), handled by Konva alone.
Drag ==
  /\ ControlsRendered
  /\ gestures < MaxGestures
  /\ \E delta \in DragDeltas : stage' = dragStage(View, delta).stage
  /\ gestures' = gestures + 1
  /\ Commit(Component, "drag", 0)
  /\ UNCHANGED <<nails, lines, animationSpeed, scale, position, mounted, appVars>>

\* App as it is first rendered: no image, no result, the placeholder shown.
AppInit ==
  /\ nails = <<>>
  /\ lines = <<>>
  /\ currentLineIndex = 0
  /\ isAnimating = FALSE
  /\ animationSpeed = InitialSpeed
  /\ animationRef = NoHandle
  /\ frames = {}
  /\ nextHandle = 1
  /\ lastEvent = [op |-> "mount", index |-> 0, animating |-> FALSE, step |-> 0,
                  pointer |-> Origin]
  /\ ViewInit
  /\ mounted = TRUE
  /\ selectedImage = FALSE
  /\ croppedAreaPixels = FALSE
  /\ processedImage = NoImage
  /\ showCropModal = FALSE
  /\ requests = [sent |-> 0, inFlight |-> 0]

\* A file has been chosen and read.
FileSelect ==
  /\ mounted
  /\ CommitApp(handleFileSelect(AppState))
  /\ Commit(Component, "fileSelect", 0)
  /\ UNCHANGED <<animationSpeed, viewVars, mounted, requests>>

\* The Cropper, shown in the crop dialog, reports the crop area.
CropComplete ==
  /\ mounted
  /\ showCropModal /\ selectedImage
  /\ CommitApp(onCropComplete(AppState))
  /\ Commit(Component, "cropComplete", 0)
  /\ UNCHANGED <<animationSpeed, viewVars, mounted, requests>>

CropCancel ==
  /\ mounted
  /\ showCropModal /\ selectedImage
  /\ CommitApp(handleCropCancel(AppState))
  /\ Commit(Component, "cropCancel", 0)
  /\ UNCHANGED <<animationSpeed, viewVars, mounted, requests>>

\* The confirm button: handleCropConfirm up to the request it awaits.
CropConfirm ==
  /\ mounted
  /\ showCropModal /\ selectedImage
  /\ selectedImage /\ croppedAreaPixels
  /\ requests.sent < MaxRequests
  /\ requests' = [sent |-> requests.sent + 1, inFlight |-> requests.inFlight + 1]
  /\ Commit(Component, "cropConfirm", 0)
  /\ UNCHANGED <<nails, lines, animationSpeed, viewVars, mounted, selectedImage,
                 croppedAreaPixels, processedImage, showCropModal>>

\* A request ends; handleCropConfirm resumes with what it resolved to.
Response ==
  /\ mounted
  /\ requests.inFlight > 0
  /\ requests' = [requests EXCEPT !.inFlight = @ - 1]
  /\ \E result \in Results \cup {Undefined} :
       /\ CommitApp(handleCropConfirm(AppState, result))
       /\ Commit(Component, IF result = Undefined THEN "responseFailed" ELSE "responseOk", 0)
  /\ UNCHANGED <<animationSpeed, viewVars, mounted>>

\* The component tree is torn down.
Unmount ==
  /\ mounted
  /\ mounted' = FALSE
  /\ Commit(unmountCleanup(Component), "unmount", 0)
  /\ UNCHANGED <<nails, lines, animationSpeed, viewVars, appVars>>

Next == Start \/ Tick \/ Pause \/ Reset \/ ShowAll \/ SpeedChange

Spec == Init /\ [][Next]_vars

\* A frame the browser holds is eventually run (the page stays visible).
LiveSpec == Spec /\ WF_vars(Tick)

\* One payload, for the specifications that explore the viewport.
OnePayloadInit == Init /\ nails = NailsOfCount(3) /\ lines = <<0, 1, 2>>

\* The viewport alone: wheel and drag events on a still visualizer.
ViewNext == WheelAtOrigin \/ Wheel \/ Drag
ViewSpec == OnePayloadInit /\ [][ViewNext]_vars

\* The visualizer inside App: results arrive and replace the payload, and
\* the tree may be torn down.
AppNext ==
  Next \/ FileSelect \/ CropComplete \/ CropCancel \/ CropConfirm \/ Response \/ Unmount
AppSpec == AppInit /\ [][AppNext]_vars

\* Playback and viewport events interleaved.
PlayViewNext == Next \/ Wheel \/ Drag
PlayViewSpec == OnePayloadInit /\ [][PlayViewNext]_vars

\* ---------------------------------------------------------------- claims
\* The controller states of the specification, read off the component state.
Completed == ~isAnimating /\ currentLineIndex = Len(lines)
Paused == ~isAnimating /\ 0 < currentLineIndex /\ currentLineIndex < Len(lines)
Interrupted == lastEvent.op \in {"pause", "reset", "showAll"}

\* C1: for a non-empty payload the reveal count is never negative and never
\* exceeds lines.length, whatever events have been handled.
C1_RevealCountInRange ==
  Len(lines) > 0 => (0 <= currentLineIndex /\ currentLineIndex <= Len(lines))

\* A tick whose step would overshoot the path has run.
C1_Witness ==
  /\ lastEvent.op = "tick"
  /\ lastEvent.index + lastEvent.step > Len(lines)
  /\ currentLineIndex = Len(lines)

\* C2: a run that the user does not interrupt keeps ticking until the reveal
\* count equals lines.length and isAnimating is false.
C2_RunReachesCompleted == isAnimating ~> (Completed \/ Interrupted)

\* C3: a tick replaces the reveal count r by min(r + step, lines.length); when
\* the new count is lines.length, isAnimating is false and no frame is left.
C3_TickAdvancesAndCompletes ==
  [][lastEvent'.op = "tick" =>
       /\ currentLineIndex' = Min(currentLineIndex + lastEvent'.step, Len(lines))
       /\ currentLineIndex' = Len(lines) => (~isAnimating' /\ frames' = {})]_vars

\* A tick has landed exactly on lines.length and completed the run.
C3_Witness ==
  /\ lastEvent.op = "tick"
  /\ lastEvent.index + lastEvent.step = Len(lines)
  /\ Completed

\* C4: starting from Paused keeps the reveal count p, and the tick that
\* follows leaves it at min(p + step, lines.length).
C4_ResumeContinues ==
  [][/\ (Paused /\ lastEvent'.op = "start") => currentLineIndex' = currentLineIndex
     /\ ( /\ lastEvent.op = "start"
          /\ ~lastEvent.animating
          /\ 0 < lastEvent.index
          /\ lastEvent.index < Len(lines)
          /\ lastEvent'.op = "tick" )
        => currentLineIndex' = Min(lastEvent.index + lastEvent'.step, Len(lines))]_vars

\* C5: pause leaves the reveal count, clears isAnimating and leaves no frame;
\* while isAnimating is false no tick runs, and only start, reset or showAll
\* change the reveal count.
C5_PauseHolds ==
  [][/\ lastEvent'.op = "pause" =>
          (currentLineIndex' = currentLineIndex /\ ~isAnimating' /\ frames' = {})
     /\ ~isAnimating => lastEvent'.op # "tick"
     /\ (~isAnimating /\ currentLineIndex' # currentLineIndex)
          => lastEvent'.op \in {"start", "reset", "showAll"}]_vars

\* Pause was pressed while the frame of the run was still queued.
C5_Witness ==
  /\ lastEvent.op = "pause"
  /\ lastEvent.animating
  /\ lastEvent.index = 0
  /\ animationRef # NoHandle
  /\ frames = {}

\* C6: reset, from any state, leaves reveal count 0, isAnimating false and no
\* frame; from there the count leaves 0 only by showAll or after a start.
C6_ResetToIdle ==
  [][/\ lastEvent'.op = "reset" =>
          (currentLineIndex' = 0 /\ ~isAnimating' /\ frames' = {})
     /\ (~isAnimating /\ currentLineIndex = 0 /\ currentLineIndex' # 0)
          => lastEvent'.op = "showAll"]_vars

\* Reset was pressed in a run that had advanced.
C6_Witness ==
  /\ lastEvent.op = "reset"
  /\ lastEvent.animating
  /\ lastEvent.index > 0
  /\ currentLineIndex = 0

\* C7: showAll, from any state, leaves reveal count lines.length, isAnimating
\* false and no frame; from there the count changes only by start or reset.
C7_ShowAllCompletes ==
  [][/\ lastEvent'.op = "showAll" =>
          (currentLineIndex' = Len(lines) /\ ~isAnimating' /\ frames' = {})
     /\ (Completed /\ currentLineIndex' # currentLineIndex)
          => lastEvent'.op \in {"start", "reset"}]_vars

\* Show All was pressed in a run that had not reached the end.
C7_Witness ==
  /\ lastEvent.op = "showAll"
  /\ lastEvent.animating
  /\ lastEvent.index < Len(lines)
  /\ currentLineIndex = Len(lines)

AllIndicesValid == \A k \in 1..Len(lines) : HasNail(lines[k])

\* The stage coordinates of the chord between two nails of the payload.
Chord(a, b) ==
  <<2 * NailAt(a).x, 2 * NailAt(a).y, 2 * NailAt(b).x, 2 * NailAt(b).y>>

\* C8: with every path index a nail position, reveal count r gives exactly
\* max(0, r - 1) segments, the k-th joining the k-th and (k+1)-th path entries.
C8_SegmentsOfValidPath ==
  AllIndicesValid =>
    /\ Len(getVisibleLines) = Max(0, currentLineIndex - 1)
    /\ \A k \in 1..Len(getVisibleLines) :
         getVisibleLines[k] = Chord(lines[k], lines[k + 1])

\* A valid path of three entries is fully revealed: two segments.
C8_Witness ==
  /\ AllIndicesValid
  /\ currentLineIndex = 3
  /\ Len(getVisibleLines) = 2
  /\ lines[1] # lines[2]

\* The positions i (0-based, 1 <= i < revealed) whose pair has both nails.
RECURSIVE GoodPairs(_)
GoodPairs(i) ==
  IF i < 1
    THEN <<>>
    ELSE IF HasNail(lines[i]) /\ HasNail(lines[i + 1])
           THEN Append(GoodPairs(i - 1), i)
           ELSE GoodPairs(i - 1)

\* C9: within the revealed prefix a pair is drawn exactly when both of its
\* indices are nail positions, in path order; for 5 nails and path [0,1,7,2]
\* fully revealed that is the one pair (0, 1).
C9_BadIndicesSkipped ==
  LET good == GoodPairs(Min(currentLineIndex, Len(lines)) - 1)
  IN /\ Len(getVisibleLines) = Len(good)
     /\ \A k \in 1..Len(good) :
          getVisibleLines[k] = Chord(lines[good[k]], lines[good[k] + 1])
     /\ (nails = ExampleNails /\ lines = ExamplePath /\ currentLineIndex = 4)
          => getVisibleLines = <<Chord(0, 1)>>

\* A path with a bad index in the middle and a valid pair after it is revealed.
C9_Witness ==
  /\ Len(lines) = 3
  /\ currentLineIndex = 3
  /\ ~HasNail(lines[1])
  /\ HasNail(lines[2]) /\ HasNail(lines[3])
  /\ Len(getVisibleLines) = 1

\* C10: with no nails or no path the placeholder is rendered and no segment is
\* computed; startAnimation on an empty path returns the state it was given.
C10_EmptyData ==
  /\ Placeholder => (Render.view = "placeholder" /\ Render.visibleLines = <<>>)
  /\ Len(lines) = 0 =>
       startAnimation(Component, lines, animationSpeed) = Component

\* The component is mounted with nails and an empty path.
C10_Witness ==
  /\ Len(lines) = 0
  /\ Len(nails) > 0
  /\ Render.view = "placeholder"

\* C11: whatever wheel and drag events have been handled, the scale the
\* component holds, and the scale of the stage node, stay within [0.1, 3].
C11_ScaleClamped ==
  /\ MinScale <= scale /\ scale <= MaxScale
  /\ MinScale <= stage.scaleX /\ stage.scaleX <= MaxScale

\* Zooming out has been stopped by the lower clamp.
C11_Witness ==
  /\ lastEvent.op = "wheel"
  /\ scale = MinScale
  /\ stage.scaleX = MinScale

\* C12: a wheel event at pointer p leaves the board point that was under p
\* under p: with node offset x, scale s before and x', s' after,
\* (p - x) * s' / s and p - x' differ by at most 2 pixels, on each axis.
C12_ZoomAnchored ==
  [][lastEvent'.op = "wheel" =>
       LET p == lastEvent'.pointer
           dx == (p.x - stage.x) * stage'.scaleX - (p.x - stage'.x) * stage.scaleX
           dy == (p.y - stage.y) * stage'.scaleX - (p.y - stage'.y) * stage.scaleX
       IN /\ -2 * stage.scaleX <= dx /\ dx <= 2 * stage.scaleX
          /\ -2 * stage.scaleX <= dy /\ dy <= 2 * stage.scaleX]_vars

\* C17: wheel and drag events leave the reveal count, the animating flag and
\* the queued frame alone; start, tick, pause, reset and showAll leave the
\* scale, the pan offset and the stage node alone.
C17_ViewportPlaybackIndependent ==
  [][/\ lastEvent'.op \in {"wheel", "drag"} =>
          UNCHANGED <<currentLineIndex, isAnimating, frames, animationRef>>
     /\ lastEvent'.op \in {"start", "tick", "pause", "reset", "showAll"} =>
          UNCHANGED <<scale, position, stage>>]_vars

\* A tick has re-rendered the component while the stage was zoomed and
\* dragged away from the offset the component holds.
C17_Witness ==
  /\ lastEvent.op = "tick"
  /\ scale # ScaleOne
  /\ stage.x # position.x

\* C13: the frame a start queues carries the speed of that moment; a slider
\* change alters neither the reveal count, the animating flag nor the queued
\* frame; and a tick adds the step its frame carries.
C13_StepFixedAtStart ==
  [][/\ lastEvent'.op = "start" =>
          /\ frames' \ frames # {}
          /\ \A f \in frames' \ frames : f.step = animationSpeed
     /\ lastEvent'.op = "speed" =>
          UNCHANGED <<currentLineIndex, isAnimating, frames>>
     /\ lastEvent'.op = "tick" =>
          \E f \in frames \ frames' :
            currentLineIndex' = Min(currentLineIndex + f.step, Len(lines))]_vars

\* A tick has run after the slider was moved during its run, and the new
\* slider value would have given another reveal count.
C13_Witness ==
  /\ lastEvent.op = "tick"
  /\ lastEvent.step # animationSpeed
  /\ currentLineIndex = Min(lastEvent.index + lastEvent.step, Len(lines))
  /\ currentLineIndex # Min(lastEvent.index + animationSpeed, Len(lines))

\* C14: at most one frame is queued; start runs only while isAnimating is
\* false, and when it runs no frame of an earlier run is queued.
C14_AtMostOneTick ==
  [][/\ Cardinality(frames) <= 1
     /\ Cardinality(frames') <= 1
     /\ lastEvent'.op = "start" => (~isAnimating /\ frames = {})]_vars

\* A second run has been started and its frame is the only one queued.
C14_Witness ==
  /\ lastEvent.op = "start"
  /\ nextHandle > 2
  /\ Cardinality(frames) = 1

\* C15: the frame callback of a run left by pause, reset or showAll, if it
\* were run all the same, would leave the component as it is.
C15_StaleTickIsNoOp ==
  ( /\ mounted
    /\ ~isAnimating
    /\ lastEvent.op \in {"pause", "reset", "showAll"}
    /\ animationRef # NoHandle )
  => \A step \in SpeedInputs :
       animate(Component, [handle |-> animationRef, step |-> step,
                           len |-> Len(lines), isAnimating |-> FALSE]) = Component

\* C19: while isAnimating is true and the reveal count is below lines.length,
\* exactly one frame is queued.
C19_AnimatingHasTick ==
  (isAnimating /\ currentLineIndex < Len(lines)) => Cardinality(frames) = 1

\* C16: unmounting cancels the scheduled tick in whatever playback state it
\* happens; once unmounted no frame is queued and no tick runs.
C16_UnmountCancelsTick ==
  [][/\ lastEvent'.op = "unmount" => frames' = {}
     /\ ~mounted => (frames = {} /\ lastEvent'.op # "tick")]_vars

\* An unmount that came while the frame of a run just started was queued.
C16_Witness ==
  /\ ~mounted
  /\ lastEvent.op = "unmount"
  /\ lastEvent.animating
  /\ lastEvent.index = 0
  /\ nextHandle > 1
  /\ frames = {}

\* C18: with results replacing the held payload while the visualizer stays
\* mounted, the reveal count stays within 0..lines.length of the path now held.
C18_CountWithinReplacedPath ==
  mounted => (0 <= currentLineIndex /\ currentLineIndex <= Len(lines))

\* C20: a response without a payload leaves the result, the preview and the
\* crop dialog as they were; the payload changes only on a response that
\* carries one, and then nails, path and preview all come from that response.
C20_FailedRequestKeepsResult ==
  [][/\ lastEvent'.op = "responseFailed"
          => UNCHANGED <<nails, lines, processedImage, showCropModal, selectedImage>>
     /\ <<nails, lines>>' # <<nails, lines>> => lastEvent'.op = "responseOk"
     /\ lastEvent'.op = "responseOk"
          => \E r \in Results :
               /\ nails' = r.stringArt.nails
               /\ lines' = r.stringArt.lines
               /\ processedImage' = r.base64Image]_vars

\* A failed request that found a result held and the crop dialog open.
C20_Witness ==
  /\ lastEvent.op = "responseFailed"
  /\ processedImage # NoImage
  /\ Len(lines) > 0
  /\ showCropModal
  /\ selectedImage

====
